---------------------------- MODULE Spec2Model ----------------------------
(***************************************************************************)
(* Model of the zeroops alerting code:                                     *)
(*   - services/alerting-ml-python/app/api.py: _segment_summary,           *)
(*     _extract_anomaly_intervals and the detect request handler;          *)
(*   - services/alerting-ml-python/app/isoforest_detect.py: the point      *)
(*     scorer run_isolation_forest / anomalies_to_json;                    *)
(*   - internal/prometheus_adapter/simple_webhook_server.py: the webhook   *)
(*     relay's handlers over the shared alerts_received list.              *)
(*                                                                         *)
(* Three specifications share the module:                                  *)
(*   SpecPure   the two pure functions applied to bounded inputs;          *)
(*   Spec       one detection request through the detect handler;          *)
(*   SpecRelay  the relay serving requests one after the other.            *)
(*                                                                         *)
(* Numbers that Python holds as floats (ratio, thresholds, contamination)  *)
(* are rationals <<numerator, denominator>> with a positive denominator.   *)
(* All of them have small denominators, where float64 division and         *)
(* comparison agree with the exact ones.                                   *)
(***************************************************************************)
EXTENDS Integers, Sequences, FiniteSets, TLC

VARIABLES
    \* harness of the pure functions
    point_results,   \* the argument of _segment_summary / _extract_anomaly_intervals
    ratio_arg,       \* the ratio_threshold argument of _segment_summary
    streak_arg,      \* the streak_threshold argument of _segment_summary
    summary,         \* <<>> before the call, <<result of _segment_summary>> after
    extracted,       \* <<>> before the call, <<result of _extract_anomaly_intervals>> after
    \* the detect handler
    req,             \* the DetectRequest being served
    point_json,      \* <<>> or <<anomalies_to_json(...)>> once the scorer returned
    seg,             \* <<>> or <<the segment summary>> once computed
    resp,            \* <<>> or <<the HTTP outcome of detect>>
    \* the webhook relay
    alerts_received, \* the module-level list
    alerts_lock,     \* TRUE while some handler is inside "with alerts_lock"
    pc,              \* position of the request handler being run
    body,            \* body of the POST being handled
    timestamp,       \* local of do_POST
    clock,           \* datetime.now(): advances at every reading
    reply,           \* <<>> or <<what the handler wrote back>>
    accepted         \* history: every record appended, in append order

pureVars   == <<point_results, ratio_arg, streak_arg, summary, extracted>>
detectVars == <<req, point_json, seg, resp>>
relayVars  == <<alerts_received, alerts_lock, pc, body, timestamp, clock, reply, accepted>>
vars       == <<pureVars, detectVars, relayVars>>

-----------------------------------------------------------------------------
(* Bounds of the explored inputs *)

MaxLen == 7          \* longest point-result sequence given to the pure functions
MaxData == 3         \* most data points of a detection request
MaxTs == 2           \* timestamps of a detection request are 1..MaxTs
MaxPosts == 103      \* most webhook payloads the relay is sent that parse as JSON
VariedPosts == 2     \* only the first VariedPosts stored payloads may be a JSON
                     \* number; the later ones are alert objects

-----------------------------------------------------------------------------
(* Rational arithmetic for Python's float values *)

GeqRat(a, b) == a[1] * b[2] >= b[1] * a[2]
EqRat(a, b)  == a[1] * b[2] = b[1] * a[2]
GtRat(a, b)  == a[1] * b[2] > b[1] * a[2]

\* api.py:13-14
DEFAULT_RATIO_THRESHOLD == <<1, 5>>
DEFAULT_STREAK_THRESHOLD == 20

-----------------------------------------------------------------------------
(* api.py: _segment_summary *)

\* bool(p.get("is_anomaly")) for p in point_results  (line 60)
anomaly_flags(prs) == [i \in 1..Len(prs) |-> prs[i].is_anomaly = TRUE]

\* sum(anomaly_flags): Python adds True as 1 and False as 0
RECURSIVE SumFlags(_)
SumFlags(flags) ==
    IF flags = <<>> THEN 0
    ELSE (IF Head(flags) THEN 1 ELSE 0) + SumFlags(Tail(flags))

\* what the division of line 61 raises when total is 0
ZeroDivisionError == [raised |-> "ZeroDivisionError"]

Max(a, b) == IF a >= b THEN a ELSE b

\* A scan that never resets the running counter (what lines 69-70 prevent).
RECURSIVE StreakScanNoReset(_, _, _)
StreakScanNoReset(flags, max_streak, current_streak) ==
    IF flags = <<>> THEN max_streak
    ELSE IF Head(flags)
         THEN StreakScanNoReset(Tail(flags), Max(max_streak, current_streak + 1),
                                current_streak + 1)
         ELSE StreakScanNoReset(Tail(flags), max_streak, current_streak)

\* the loop of lines 63-70, from the state (max_streak, current_streak)
RECURSIVE StreakScan(_, _, _)
StreakScan(flags, max_streak, current_streak) ==
    IF flags = <<>> THEN max_streak
    ELSE IF Head(flags)
         THEN StreakScan(Tail(flags), Max(max_streak, current_streak + 1),
                         current_streak + 1)
         ELSE StreakScan(Tail(flags), max_streak, 0)

\* The scan started as line 63-64 start it, without the reset.
MaxStreakNoReset(flags) == StreakScanNoReset(flags, 0, 0)

\* lines 63-70: max_streak after the loop
MaxStreak(flags) == StreakScan(flags, 0, 0)

\* The verdict with AND in place of OR.
IsAnomBothRules(ratio, max_streak, ratio_threshold, streak_threshold) ==
    GeqRat(ratio, ratio_threshold) /\ (max_streak >= streak_threshold)

\* is_anom = (ratio >= ratio_threshold) or (max_streak >= streak_threshold)  (line 72)
IsAnom(ratio, max_streak, ratio_threshold, streak_threshold) ==
    GeqRat(ratio, ratio_threshold) \/ (max_streak >= streak_threshold)

\* lines 60-78: the summary of a sequence, computed without looking at total
SummaryBody(prs, ratio_threshold, streak_threshold) ==
    LET total == Len(prs)
        flags == anomaly_flags(prs)
        ratio == <<SumFlags(flags), total>>    \* sum(anomaly_flags) / total
        max_streak == MaxStreak(flags)
    IN  IF total = 0 THEN ZeroDivisionError
        ELSE [is_segment_anomaly |-> IsAnom(ratio, max_streak, ratio_threshold,
                                            streak_threshold),
              anomaly_ratio |-> ratio,
              max_consecutive_anomaly |-> max_streak,
              rules |-> [ratio_threshold |-> ratio_threshold,
                         streak_threshold |-> streak_threshold]]

\* _segment_summary without the total == 0 return of lines 53-58.
SegmentSummaryNoEmptyCase(prs, ratio_threshold, streak_threshold) ==
    SummaryBody(prs, ratio_threshold, streak_threshold)

\* lines 47-78
_segment_summary(prs, ratio_threshold, streak_threshold) ==
    IF Len(prs) = 0
    THEN [is_segment_anomaly |-> FALSE,
          reason |-> "empty",
          rules |-> [ratio_threshold |-> ratio_threshold,
                     streak_threshold |-> streak_threshold]]
    ELSE SummaryBody(prs, ratio_threshold, streak_threshold)

-----------------------------------------------------------------------------
(* api.py: _extract_anomaly_intervals.  Python indexes from 0, the model   *)
(* from 1: the model's i is Python's i + 1 and n is len(point_results).   *)

\* the inner loop of lines 92-93: the first index at or after i that is past
\* the end or not flagged
RECURSIVE SkipFlagged(_, _)
SkipFlagged(prs, i) ==
    IF i <= Len(prs) /\ prs[i].is_anomaly = TRUE
    THEN SkipFlagged(prs, i + 1)
    ELSE i

\* A scan that closes every run after its first point.
RECURSIVE ExtractSingletons(_, _, _)
ExtractSingletons(prs, i, intervals) ==
    IF i > Len(prs) THEN intervals
    ELSE IF ~(prs[i].is_anomaly = TRUE)
         THEN ExtractSingletons(prs, i + 1, intervals)
         ELSE ExtractSingletons(prs, i + 1,
                  Append(intervals, [start |-> prs[i].timestamp,
                                     end |-> prs[i].timestamp]))

\* the outer loop of lines 85-98, from index i with the intervals found so far
RECURSIVE ExtractFrom(_, _, _)
ExtractFrom(prs, i, intervals) ==
    IF i > Len(prs) THEN intervals
    ELSE IF ~(prs[i].is_anomaly = TRUE)
         THEN ExtractFrom(prs, i + 1, intervals)
         ELSE LET start_idx == i
                  next_i == SkipFlagged(prs, i)
                  end_idx == next_i - 1
              IN  ExtractFrom(prs, next_i,
                      Append(intervals, [start |-> prs[start_idx].timestamp,
                                         end |-> prs[end_idx].timestamp]))

\* One interval per flagged point.
ExtractSingletonRuns(prs) == ExtractSingletons(prs, 1, <<>>)

\* One interval per run, its end read at start_idx instead of end_idx.
ExtractEndAtStart(prs) ==
    LET ivs == ExtractFrom(prs, 1, <<>>)
    IN  [k \in 1..Len(ivs) |-> [start |-> ivs[k].start, end |-> ivs[k].start]]

\* lines 81-100
_extract_anomaly_intervals(prs) == ExtractFrom(prs, 1, <<>>)

-----------------------------------------------------------------------------
(* The pure functions applied to bounded arguments *)

\* the flags of the example of the interval extractor's documentation
ExampleFlags ==
    <<FALSE, FALSE, TRUE, TRUE, FALSE, TRUE, FALSE, FALSE, TRUE, TRUE, TRUE>>

FlagSeqs == UNION {[1..n -> BOOLEAN] : n \in 0..MaxLen} \cup {ExampleFlags}

\* Timestamps are opaque to both functions.  Three ways of stamping a
\* sequence: t0, t1, ... in order; the same stamp on every point; descending.
TsLayouts == {"ascending", "constant", "descending"}

LayoutTs(layout, i, n) ==
    CASE layout = "ascending" -> i - 1
      [] layout = "constant" -> 0
      [] layout = "descending" -> n - i

PointResults(flags, layout) ==
    [i \in 1..Len(flags) |->
        [timestamp |-> LayoutTs(layout, i, Len(flags)), is_anomaly |-> flags[i]]]

RatioThresholds ==
    {<<-1, 10>>, <<0, 1>>, DEFAULT_RATIO_THRESHOLD, <<1, 2>>, <<1, 1>>, <<3, 2>>}
StreakThresholds == {-1, 0, 1, 2, 3, DEFAULT_STREAK_THRESHOLD}

PureInputs ==
    /\ point_results \in {PointResults(f, l) : f \in FlagSeqs, l \in TsLayouts}
    /\ ratio_arg \in RatioThresholds
    /\ streak_arg \in StreakThresholds
    /\ summary = <<>>
    /\ extracted = <<>>

CallSegmentSummary ==
    /\ summary = <<>>
    /\ summary' = <<_segment_summary(point_results, ratio_arg, streak_arg)>>
    /\ UNCHANGED <<point_results, ratio_arg, streak_arg, extracted>>
    /\ UNCHANGED <<detectVars, relayVars>>

CallExtractAnomalyIntervals ==
    /\ extracted = <<>>
    /\ extracted' = <<_extract_anomaly_intervals(point_results)>>
    /\ UNCHANGED <<point_results, ratio_arg, streak_arg, summary>>
    /\ UNCHANGED <<detectVars, relayVars>>

NextPure == CallSegmentSummary \/ CallExtractAnomalyIntervals

-----------------------------------------------------------------------------
(* isoforest_detect.py: the point scorer.  IsolationForest is scikit-learn's;  *)
(* the model keeps of it what the handler can observe: it raises or it returns *)
(* one label, 1 or -1, per row.  Which rows get -1 is left open.               *)

\* contamination values of a request: 0, 0.05 (the default), 0.5, 0.6
Contaminations == {<<0, 1>>, <<1, 20>>, <<1, 2>>, <<3, 5>>}

\* scikit-learn accepts a float contamination only in (0, 0.5]
ValidContamination(c) == GtRat(c, <<0, 1>>) /\ GeqRat(<<1, 2>>, c)

\* a float is either finite or one of NaN, inf, -inf
Values == {"finite", "nonfinite"}

HasNonFinite(df) == \E i \in 1..Len(df) : df[i].value = "nonfinite"

\* detect_point_anomalies (lines 35-56) raises: on a contamination outside
\* (0, 0.5] (parameter validation of fit), on an empty array, and on non-finite
\* values where fit validates the input as finite.
ScorerMayRaise(df, contamination) ==
    \/ ~ValidContamination(contamination)
    \/ Len(df) = 0
    \/ HasNonFinite(df)

\* the label vectors detect_point_anomalies may return (pred_labels, line 54);
\* a scikit-learn whose trees take missing values scores non-finite rows too
ScorerLabels(df, contamination) ==
    IF ~ValidContamination(contamination) \/ Len(df) = 0 THEN {}
    ELSE [1..Len(df) -> {1, -1}]

\* run_isolation_forest, lines 64-67, then anomalies_to_json, lines 70-79:
\* one dict per row, in row order.  The score is read by nothing and left out.
PointJson(df, pred_labels) ==
    [i \in 1..Len(df) |->
        [timestamp |-> df[i].timestamp,
         value |-> df[i].value,
         is_anomaly |-> (pred_labels[i] = -1)]]

-----------------------------------------------------------------------------
(* api.py: detect *)

\* pd.DataFrame of a list of row dicts (line 114): no row, no column
DataFrameColumns(data) == IF data = <<>> THEN {} ELSE {"timestamp", "value"}

\* df.sort_values("timestamp").reset_index(drop=True)  (line 118): the rows in
\* ascending timestamp order; the default sort is not stable, so rows of equal
\* timestamp come in any order
SortValues(data) ==
    LET n == Len(data)
        Perms == {p \in [1..n -> 1..n] : \A i, j \in 1..n : p[i] = p[j] => i = j}
    IN  {[i \in 1..n |-> data[p[i]]] : p \in
            {q \in Perms : \A i \in 1..(n - 1) :
                              data[q[i]].timestamp <= data[q[i + 1]].timestamp}}

\* The intervals extracted whatever the verdict.
IntervalsRegardlessOfVerdict(s, pj) == _extract_anomaly_intervals(pj)

\* line 126
IntervalsIfAnomalous(s, pj) ==
    IF s.is_segment_anomaly THEN _extract_anomaly_intervals(pj) ELSE <<>>

\* lines 128-131: the response model built from the intervals
DetectResponse(intervals) ==
    [status |-> 200,
     anomalies |-> [k \in 1..Len(intervals) |->
                       [start |-> intervals[k].start, end |-> intervals[k].end]]]

\* raise HTTPException(status_code=..., detail=...)
HTTPException(status_code, detail) == [status |-> status_code, detail |-> detail]

DetectRatioThresholds == {DEFAULT_RATIO_THRESHOLD, <<1, 1>>}
DetectStreakThresholds == {2, DEFAULT_STREAK_THRESHOLD}

DataPoints == [timestamp : 1..MaxTs, value : Values]

Requests ==
    [data : UNION {[1..n -> DataPoints] : n \in 0..MaxData},
     contamination : Contaminations,
     ratio_threshold : DetectRatioThresholds,
     streak_threshold : DetectStreakThresholds]

DetectPending ==
    /\ req \in Requests
    /\ point_json = <<>>
    /\ seg = <<>>
    /\ resp = <<>>

\* lines 115-116, re-raised by lines 132-133
DetectMissingColumns ==
    /\ resp = <<>>
    /\ ~({"timestamp", "value"} \subseteq DataFrameColumns(req.data))
    /\ resp' = <<HTTPException(400, "data points must include timestamp and value")>>
    /\ UNCHANGED <<req, point_json, seg>>
    /\ UNCHANGED <<pureVars, relayVars>>

\* line 121 raises; lines 134-135 turn any exception into a 500
DetectScorerRaises ==
    /\ resp = <<>>
    /\ {"timestamp", "value"} \subseteq DataFrameColumns(req.data)
    /\ \E df \in SortValues(req.data) :
          /\ ScorerMayRaise(df, req.contamination)
          /\ resp' = <<HTTPException(500, "detection failed")>>
    /\ UNCHANGED <<req, point_json, seg>>
    /\ UNCHANGED <<pureVars, relayVars>>

\* lines 114-131 without an exception
DetectResponds ==
    /\ resp = <<>>
    /\ {"timestamp", "value"} \subseteq DataFrameColumns(req.data)
    /\ \E df \in SortValues(req.data) :
       \E pred_labels \in ScorerLabels(df, req.contamination) :
          LET pj == PointJson(df, pred_labels)
              s == _segment_summary(pj, req.ratio_threshold, req.streak_threshold)
              intervals == IntervalsIfAnomalous(s, pj)
          IN  /\ point_json' = <<pj>>
              /\ seg' = <<s>>
              /\ resp' = <<DetectResponse(intervals)>>
    /\ UNCHANGED req
    /\ UNCHANGED <<pureVars, relayVars>>

Next == DetectMissingColumns \/ DetectScorerRaises \/ DetectResponds

-----------------------------------------------------------------------------
(* simple_webhook_server.py.  run_server starts an HTTPServer, which serves   *)
(* one request at a time: a single handler runs, and pc is its position.      *)
(* "idle" is the server between two requests.                                  *)

\* the capacity of line 38
MaxAlerts == 100

\* POST bodies: an Alertmanager object; a JSON number, which json.loads accepts
\* and on which "'alerts' in data" (line 46) raises; text that is not JSON
Bodies == {"alert", "number", "malformed"}

\* Eviction of the newest record: pop() in place of pop(0).
EvictNewest(alerts) ==
    IF Len(alerts) > MaxAlerts THEN SubSeq(alerts, 1, Len(alerts) - 1) ELSE alerts

\* lines 38-39: if len(alerts_received) > 100: alerts_received.pop(0)
Evict(alerts) ==
    IF Len(alerts) > MaxAlerts THEN Tail(alerts) ELSE alerts

\* what a handler writes back
Reply(status, kind, content) == [status |-> status, kind |-> kind, content |-> content]

\* do_POST, lines 19 and 71-74, and do_GET, lines 111-114: an unknown path
NotFound ==
    /\ pc = "idle"
    /\ reply' = <<Reply(404, "text", "Not Found")>>
    /\ UNCHANGED <<alerts_received, alerts_lock, pc, body, timestamp, clock, accepted>>
    /\ UNCHANGED <<pureVars, detectVars>>

\* a POST to /v1/integrations/alertmanager/webhook arrives (line 19)
ReceivePost ==
    /\ pc = "idle"
    /\ \E b \in Bodies :
          /\ b # "malformed" => clock < MaxPosts
          /\ b = "number" => Len(accepted) < VariedPosts
          /\ body' = b
    /\ pc' = "post_parse"
    /\ reply' = <<>>
    /\ UNCHANGED <<alerts_received, alerts_lock, timestamp, clock, accepted>>
    /\ UNCHANGED <<pureVars, detectVars>>

\* lines 22-26 raise; lines 64-70 answer 400
PostParseFails ==
    /\ pc = "post_parse"
    /\ body = "malformed"
    /\ reply' = <<Reply(400, "json", "error")>>
    /\ pc' = "idle"
    /\ UNCHANGED <<alerts_received, alerts_lock, body, timestamp, clock, accepted>>
    /\ UNCHANGED <<pureVars, detectVars>>

\* lines 22-29: the body parses, timestamp = datetime.now().isoformat()
PostParse ==
    /\ pc = "post_parse"
    /\ body # "malformed"
    /\ timestamp' = clock
    /\ clock' = clock + 1
    /\ pc' = "post_acquire"
    /\ UNCHANGED <<alerts_received, alerts_lock, body, reply, accepted>>
    /\ UNCHANGED <<pureVars, detectVars>>

\* line 30: with alerts_lock
PostAcquire ==
    /\ pc = "post_acquire"
    /\ ~alerts_lock
    /\ alerts_lock' = TRUE
    /\ pc' = "post_append"
    /\ UNCHANGED <<alerts_received, body, timestamp, clock, reply, accepted>>
    /\ UNCHANGED <<pureVars, detectVars>>

\* lines 31-35
PostAppend ==
    /\ pc = "post_append"
    /\ LET alert_record == [timestamp |-> timestamp, data |-> body]
       IN  /\ alerts_received' = Append(alerts_received, alert_record)
           /\ accepted' = Append(accepted, alert_record)
    /\ pc' = "post_evict"
    /\ UNCHANGED <<alerts_lock, body, timestamp, clock, reply>>
    /\ UNCHANGED <<pureVars, detectVars>>

\* lines 38-39
PostEvict ==
    /\ pc = "post_evict"
    /\ alerts_received' = Evict(alerts_received)
    /\ pc' = "post_release"
    /\ UNCHANGED <<alerts_lock, body, timestamp, clock, reply, accepted>>
    /\ UNCHANGED <<pureVars, detectVars>>

\* the end of the with block of line 30
PostRelease ==
    /\ pc = "post_release"
    /\ alerts_lock' = FALSE
    /\ pc' = "post_summary"
    /\ UNCHANGED <<alerts_received, body, timestamp, clock, reply, accepted>>
    /\ UNCHANGED <<pureVars, detectVars>>

\* lines 41-62 print the payload and answer 200; on a JSON number line 46
\* raises and lines 64-70 answer 400, the record staying stored
PostSummary ==
    /\ pc = "post_summary"
    /\ reply' = IF body = "number"
                THEN <<Reply(400, "json", "error")>>
                ELSE <<Reply(200, "json", "success")>>
    /\ pc' = "idle"
    /\ UNCHANGED <<alerts_received, alerts_lock, body, timestamp, clock, accepted>>
    /\ UNCHANGED <<pureVars, detectVars>>

\* GET /alerts, lines 78-82: the status and headers go out first
ReceiveGetAlerts ==
    /\ pc = "idle"
    /\ pc' = "alerts_acquire"
    /\ reply' = <<>>
    /\ UNCHANGED <<alerts_received, alerts_lock, body, timestamp, clock, accepted>>
    /\ UNCHANGED <<pureVars, detectVars>>

\* line 83: with alerts_lock
AlertsAcquire ==
    /\ pc = "alerts_acquire"
    /\ ~alerts_lock
    /\ alerts_lock' = TRUE
    /\ pc' = "alerts_dump"
    /\ UNCHANGED <<alerts_received, body, timestamp, clock, reply, accepted>>
    /\ UNCHANGED <<pureVars, detectVars>>

\* line 84: json.dumps writes the records of the list in list order
AlertsDump ==
    /\ pc = "alerts_dump"
    /\ reply' = <<Reply(200, "alerts", alerts_received)>>
    /\ pc' = "alerts_release"
    /\ UNCHANGED <<alerts_received, alerts_lock, body, timestamp, clock, accepted>>
    /\ UNCHANGED <<pureVars, detectVars>>

\* the end of the with block of line 83
AlertsRelease ==
    /\ pc = "alerts_release"
    /\ alerts_lock' = FALSE
    /\ pc' = "idle"
    /\ UNCHANGED <<alerts_received, body, timestamp, clock, reply, accepted>>
    /\ UNCHANGED <<pureVars, detectVars>>

\* GET /health, lines 86-90
GetHealth ==
    /\ pc = "idle"
    /\ reply' = <<Reply(200, "text", "OK")>>
    /\ UNCHANGED <<alerts_received, alerts_lock, pc, body, timestamp, clock, accepted>>
    /\ UNCHANGED <<pureVars, detectVars>>

\* GET /, lines 92-96: the status and headers go out
ReceiveGetRoot ==
    /\ pc = "idle"
    /\ pc' = "root_format"
    /\ reply' = <<>>
    /\ UNCHANGED <<alerts_received, alerts_lock, body, timestamp, clock, accepted>>
    /\ UNCHANGED <<pureVars, detectVars>>

\* lines 97-110: the page is formatted with len(alerts_received), read outside
\* any with alerts_lock block
RootFormat ==
    /\ pc = "root_format"
    /\ reply' = <<Reply(200, "html", Len(alerts_received))>>
    /\ pc' = "idle"
    /\ UNCHANGED <<alerts_received, alerts_lock, body, timestamp, clock, accepted>>
    /\ UNCHANGED <<pureVars, detectVars>>

NextRelay ==
    \/ NotFound
    \/ ReceivePost \/ PostParseFails \/ PostParse \/ PostAcquire \/ PostAppend
    \/ PostEvict \/ PostRelease \/ PostSummary
    \/ ReceiveGetAlerts \/ AlertsAcquire \/ AlertsDump \/ AlertsRelease
    \/ GetHealth
    \/ ReceiveGetRoot \/ RootFormat

-----------------------------------------------------------------------------
(* Specifications *)

\* the harness of the pure functions, not in use
PureIdle ==
    /\ point_results = <<>>
    /\ ratio_arg = DEFAULT_RATIO_THRESHOLD
    /\ streak_arg = DEFAULT_STREAK_THRESHOLD
    /\ summary = <<>>
    /\ extracted = <<>>

\* no detection request
DetectIdle ==
    /\ req = <<>>
    /\ point_json = <<>>
    /\ seg = <<>>
    /\ resp = <<>>

\* lines 13-14 of simple_webhook_server.py: the module-level list and lock,
\* and the server waiting for its first request
RelayStart ==
    /\ alerts_received = <<>>
    /\ alerts_lock = FALSE
    /\ pc = "idle"
    /\ body = ""
    /\ timestamp = 0
    /\ clock = 0
    /\ reply = <<>>
    /\ accepted = <<>>

InitPure == PureInputs /\ DetectIdle /\ RelayStart
SpecPure == InitPure /\ [][NextPure]_vars

Init == PureIdle /\ DetectPending /\ RelayStart
Spec == Init /\ [][Next]_vars

InitRelay == PureIdle /\ DetectIdle /\ RelayStart
SpecRelay == InitRelay /\ [][NextRelay]_vars

-----------------------------------------------------------------------------
(* Properties of the two pure functions; runs are defined from the flags alone *)

Flagged(prs) == {i \in 1..Len(prs) : prs[i].is_anomaly = TRUE}

\* a..b is a run: every point of it is flagged
IsRun(prs, a, b) == a <= b /\ \A i \in a..b : i \in Flagged(prs)

\* a run that cannot be extended on either side
IsMaximalRun(prs, a, b) ==
    /\ IsRun(prs, a, b)
    /\ (a = 1 \/ (a - 1) \notin Flagged(prs))
    /\ (b = Len(prs) \/ (b + 1) \notin Flagged(prs))

MaximalRuns(prs) ==
    {r \in (1..Len(prs)) \X (1..Len(prs)) : IsMaximalRun(prs, r[1], r[2])}

SetMax(S) == IF S = {} THEN 0 ELSE CHOOSE m \in S : \A x \in S : x <= m

LongestRun(prs) ==
    SetMax({r[2] - r[1] + 1 :
              r \in {q \in (1..Len(prs)) \X (1..Len(prs)) : IsRun(prs, q[1], q[2])}})

\* the maximal runs in the order of their first points, as intervals
ExpectedIntervals(prs) ==
    LET MR == MaximalRuns(prs)
        Nth(k) == CHOOSE r \in MR : Cardinality({q \in MR : q[1] < r[1]}) = k - 1
    IN  [k \in 1..Cardinality(MR) |->
            [start |-> prs[Nth(k)[1]].timestamp, end |-> prs[Nth(k)[2]].timestamp]]

SummaryCalled == summary # <<>>
ExtractCalled == extracted # <<>>

\* C1: for a non-empty sequence, is_segment_anomaly is true exactly when
\* flagged/total >= ratio_threshold or the longest run of consecutive flagged
\* points >= streak_threshold; it is false only when both rules fail.
C1_VerdictIsOrOfRules ==
    (SummaryCalled /\ Len(point_results) > 0) =>
        LET s == summary[1]
            ratioRule == GeqRat(<<Cardinality(Flagged(point_results)),
                                  Len(point_results)>>, ratio_arg)
            streakRule == LongestRun(point_results) >= streak_arg
        IN  /\ DOMAIN s = {"is_segment_anomaly", "anomaly_ratio",
                           "max_consecutive_anomaly", "rules"}
            /\ s.is_segment_anomaly = (ratioRule \/ streakRule)
            /\ (ratioRule => s.is_segment_anomaly = TRUE)
            /\ (streakRule => s.is_segment_anomaly = TRUE)
            /\ (s.is_segment_anomaly = FALSE => (~ratioRule /\ ~streakRule))

\* the streak rule alone decides: ratio below its threshold, one long enough run
C1_Witness ==
    /\ SummaryCalled /\ Len(point_results) > 0
    /\ ~GeqRat(<<Cardinality(Flagged(point_results)), Len(point_results)>>,
               ratio_arg)
    /\ LongestRun(point_results) >= streak_arg
    /\ streak_arg >= 2
    /\ summary[1].is_segment_anomaly = TRUE

ExamplePoints == PointResults(ExampleFlags, "ascending")

\* C2: the extractor returns exactly one interval per maximal run of flagged
\* points, start and end being the timestamps of the run's first and last
\* points, in the order of the runs, whatever the timestamps are; the flags
\* F,F,T,T,F,T,F,F,T,T,T over t0..t10 give (t2,t3), (t5,t5), (t8,t10).
C2_IntervalsAreMaximalRuns ==
    ExtractCalled =>
        /\ extracted[1] = ExpectedIntervals(point_results)
        /\ (point_results = ExamplePoints =>
                extracted[1] = << [start |-> 2, end |-> 3],
                                  [start |-> 5, end |-> 5],
                                  [start |-> 8, end |-> 10] >>)

C2_Witness ==
    /\ ExtractCalled
    /\ point_results = ExamplePoints
    /\ Len(extracted[1]) = 3

\* C6: for the empty sequence and any thresholds, also non-positive ones, the
\* summary is is_segment_anomaly = false with reason "empty" and the thresholds
\* echoed in rules; nothing is raised and no ratio is computed.
C6_EmptySummary ==
    (SummaryCalled /\ point_results = <<>>) =>
        LET s == summary[1]
        IN  /\ DOMAIN s = {"is_segment_anomaly", "reason", "rules"}
            /\ s.is_segment_anomaly = FALSE
            /\ s.reason = "empty"
            /\ s.rules = [ratio_threshold |-> ratio_arg,
                          streak_threshold |-> streak_arg]

C6_Witness ==
    /\ SummaryCalled /\ point_results = <<>>
    /\ GeqRat(<<0, 1>>, ratio_arg)
    /\ streak_arg <= 0
    /\ summary[1].reason = "empty"

\* C9: for a non-empty sequence anomaly_ratio is exactly flagged/total and
\* max_consecutive_anomaly is the length of the longest run of flagged points;
\* so 0 <= ratio <= 1, 0 <= max_consecutive_anomaly <= flagged <= total, and an
\* all-flagged sequence of length N gives ratio 1 and max_consecutive_anomaly N.
C9_RatioAndStreakExact ==
    (SummaryCalled /\ Len(point_results) > 0) =>
        LET s == summary[1]
            total == Len(point_results)
            flagged == Cardinality(Flagged(point_results))
        IN  /\ DOMAIN s = {"is_segment_anomaly", "anomaly_ratio",
                           "max_consecutive_anomaly", "rules"}
            /\ s.anomaly_ratio = <<flagged, total>>
            /\ s.max_consecutive_anomaly = LongestRun(point_results)
            /\ GeqRat(s.anomaly_ratio, <<0, 1>>) /\ GeqRat(<<1, 1>>, s.anomaly_ratio)
            /\ 0 <= s.max_consecutive_anomaly
            /\ s.max_consecutive_anomaly <= flagged
            /\ flagged <= total
            /\ (flagged = total =>
                    /\ EqRat(s.anomaly_ratio, <<1, 1>>)
                    /\ s.max_consecutive_anomaly = total)

\* the reset matters: several runs, the longest shorter than the flagged count
C9_Witness ==
    /\ SummaryCalled /\ Len(point_results) > 0
    /\ summary[1].max_consecutive_anomaly >= 2
    /\ summary[1].max_consecutive_anomaly < Cardinality(Flagged(point_results))

RECURSIVE SumLengths(_)
SumLengths(ivs) ==
    IF ivs = <<>> THEN 0
    ELSE (Head(ivs).end - Head(ivs).start + 1) + SumLengths(Tail(ivs))

\* point i carries timestamp i - 1: an interval's start and end are indexes
IndexStamped(prs) == \A i \in 1..Len(prs) : prs[i].timestamp = i - 1

\* C10: the intervals are disjoint index ranges separated by at least one
\* unflagged point, they cover exactly the flagged points, there is none iff no
\* point is flagged, and the longest has length max_consecutive_anomaly; so an
\* anomalous verdict comes with a non-empty list when ratio_threshold > 0 and
\* streak_threshold >= 1, while ratio_threshold <= 0 makes the verdict anomalous.
C10_AggregatorAndExtractorAgree ==
    ExtractCalled =>
        LET ivs == extracted[1]
            prs == point_results
            n == Len(prs)
        IN  /\ (ivs = <<>>) = (Flagged(prs) = {})
            /\ IndexStamped(prs) =>
                /\ \A k \in 1..Len(ivs) :
                      /\ 0 <= ivs[k].start /\ ivs[k].start <= ivs[k].end
                      /\ ivs[k].end <= n - 1
                /\ \A k \in 1..(Len(ivs) - 1) :
                      /\ ivs[k].end + 1 < ivs[k + 1].start
                      /\ prs[ivs[k].end + 2].is_anomaly = FALSE
                /\ Flagged(prs) =
                      UNION {(ivs[k].start + 1)..(ivs[k].end + 1) : k \in 1..Len(ivs)}
                /\ SumLengths(ivs) = Cardinality(Flagged(prs))
                /\ (SummaryCalled /\ n > 0) =>
                      summary[1].max_consecutive_anomaly =
                          SetMax({ivs[k].end - ivs[k].start + 1 : k \in 1..Len(ivs)})
            /\ (SummaryCalled /\ n > 0) =>
                /\ (/\ summary[1].is_segment_anomaly
                    /\ GtRat(ratio_arg, <<0, 1>>)
                    /\ streak_arg >= 1) => ivs # <<>>
                /\ GeqRat(<<0, 1>>, ratio_arg) => summary[1].is_segment_anomaly

\* ratio_threshold <= 0: an anomalous verdict over a sequence with no flagged point
C10_Witness ==
    /\ SummaryCalled /\ ExtractCalled /\ Len(point_results) > 0
    /\ GeqRat(<<0, 1>>, ratio_arg)
    /\ summary[1].is_segment_anomaly = TRUE
    /\ extracted[1] = <<>>

-----------------------------------------------------------------------------
(* The detect handler *)

Answered == resp # <<>>

\* pj holds the rows of data, each once, in ascending timestamp order
IsSortedRowsOf(pj, data) ==
    /\ Len(pj) = Len(data)
    /\ \A i \in 1..(Len(pj) - 1) : pj[i].timestamp <= pj[i + 1].timestamp
    /\ \A row \in DataPoints :
          Cardinality({i \in 1..Len(pj) : pj[i].timestamp = row.timestamp
                                          /\ pj[i].value = row.value})
            = Cardinality({i \in 1..Len(data) : data[i] = row})

\* C3: the response's anomalies list is empty whenever the segment verdict is
\* non-anomalous, flagged points or not; when the verdict is anomalous it is the
\* maximal runs of the very sequence the verdict was computed on, which is the
\* scorer's output in timestamp order.
C3_AnomaliesFollowVerdict ==
    (Answered /\ resp[1].status = 200) =>
        LET pj == point_json[1]
            s == seg[1]
            verdict == \/ GeqRat(<<Cardinality(Flagged(pj)), Len(pj)>>,
                                 req.ratio_threshold)
                       \/ LongestRun(pj) >= req.streak_threshold
        IN  /\ IsSortedRowsOf(pj, req.data)
            /\ s.is_segment_anomaly = verdict
            /\ (~s.is_segment_anomaly => resp[1].anomalies = <<>>)
            /\ (s.is_segment_anomaly => resp[1].anomalies = ExpectedIntervals(pj))

\* a non-anomalous verdict over a sequence with a flagged point
C3_Witness ==
    /\ Answered /\ resp[1].status = 200
    /\ seg[1].is_segment_anomaly = FALSE
    /\ Flagged(point_json[1]) # {}
    /\ resp[1].anomalies = <<>>

InvalidInput(r) ==
    \/ ~ValidContamination(r.contamination)
    \/ \E i \in 1..Len(r.data) : r.data[i].value = "nonfinite"

\* C4: a request whose contamination is outside (0, 0.5] or whose values hold
\* a non-finite number is answered with a client error (400), not a server
\* error, and without anomalies.
C4_InvalidInputIsClientError ==
    (Answered /\ InvalidInput(req)) =>
        /\ resp[1].status = 400
        /\ "anomalies" \notin DOMAIN resp[1]

\* C5: a request with empty data, its other fields valid, completes and yields
\* an empty anomalies list, not an error.
C5_EmptyDataYieldsEmptyAnomalies ==
    (Answered /\ req.data = <<>> /\ ValidContamination(req.contamination)) =>
        /\ resp[1].status = 200
        /\ resp[1].anomalies = <<>>

-----------------------------------------------------------------------------
(* The webhook relay *)

Min(a, b) == IF a <= b THEN a ELSE b

\* the last n elements of a sequence, or all of it
LastN(seq, n) == SubSeq(seq, Len(seq) - Min(Len(seq), n) + 1, Len(seq))

\* C7: whenever the lock is free the buffer holds at most 100 records, and
\* they are the most recent min(k, 100) of the k accepted payloads, oldest
\* first; GET /alerts returns that sequence.
C7_BufferIsLastHundredAccepted ==
    /\ ~alerts_lock =>
          /\ Len(alerts_received) <= MaxAlerts
          /\ Len(alerts_received) = Min(Len(accepted), MaxAlerts)
          /\ alerts_received = LastN(accepted, MaxAlerts)
    /\ (reply # <<>> /\ reply[1].kind = "alerts") =>
          /\ reply[1].status = 200
          /\ reply[1].content = LastN(accepted, MaxAlerts)

\* GET /alerts answered after the 101st accepted payload evicted the first
C7_Witness ==
    /\ Len(accepted) > MaxAlerts
    /\ ~alerts_lock
    /\ pc = "idle"
    /\ reply # <<>> /\ reply[1].kind = "alerts"
    /\ Len(reply[1].content) = MaxAlerts
    /\ reply[1].content[1] = accepted[Len(accepted) - MaxAlerts + 1]

\* the positions whose next step reads or writes alerts_received
BufferAccess == {"post_append", "post_evict", "alerts_dump", "root_format"}

\* C8: every read and every write of alerts_received, in every handler, is
\* made while holding alerts_lock.
C8_EveryAccessHoldsLock ==
    pc \in BufferAccess => alerts_lock

=============================================================================
